---- MODULE Spec2Model ----
(***************************************************************************)
(* cdsdl: download monthly Climate Data Store files over a year range.     *)
(* The script (src/cdsdl.py) is modelled as a state machine: one run of    *)
(* the script, the filesystem under the output directory, the local clock  *)
(* read by datetime.now(), the retrieval client, and a re-run of the       *)
(* script with identical arguments.                                        *)
(***************************************************************************)
EXTENDS Integers, Sequences, FiniteSets, TLC

VARIABLES
    start_year,   \* options.start                                (line 56)
    end_year,     \* options.end                                  (line 57)
    pc,           \* position of the script
    year_it,      \* values range(start_year, end_year) has yielded (line 70)
    month_it,     \* values range(1, 13) has yielded              (line 71)
    year,         \* the variable `year`: an int after line 70, a str after line 72
    month,        \* the variable `month` (str after line 73)
    dir_exists,   \* the output subdirectory exists on disk
    files,        \* paths of the regular files on disk
    made_dir,     \* os.makedirs was executed in this run         (line 66)
    client,       \* cdsapi.Client() was constructed in this run  (line 68)
    clock,        \* what datetime.now() reads: [year, month]
    ticks,        \* how many months the clock has advanced
    stdout,       \* lines printed by this run
    stderr,       \* message written by sys.exit
    exit_code,    \* <<>> while running, <<status>> once the process ended
    calls,        \* client.retrieve invocations of this run, in order
    inflight,     \* retrieve calls that have not returned yet
    nfail,        \* errors raised by client.retrieve in this run
    run,          \* "first" or "rerun"
    files0,       \* files on disk when this run started
    clock0,       \* clock when this run started
    prev          \* summary of the previous run

vars == << start_year, end_year, pc, year_it, month_it, year, month,
           dir_exists, files, made_dir, client, clock, ticks, stdout, stderr,
           exit_code, calls, inflight, nfail, run, files0, clock0, prev >>

-----------------------------------------------------------------------------
(* Bounds of the model *)

FirstYear == 2019
MaxSpan == 2
RerunSpan == 1
MaxTicks == 1

(* Program constants *)

MonthStart == 1
MonthStop == 13

(* Command line inputs (the examples of the help texts) *)

dataset == "reanalysis-era5-land"
variable == "total_precipitation"
options_output_directory == "/data/db/cds"

-----------------------------------------------------------------------------
(* Formatting *)

Digit(d) ==
    CASE d = 0 -> "0" [] d = 1 -> "1" [] d = 2 -> "2" [] d = 3 -> "3"
      [] d = 4 -> "4" [] d = 5 -> "5" [] d = 6 -> "6" [] d = 7 -> "7"
      [] d = 8 -> "8" [] d = 9 -> "9"

RECURSIVE Digits(_)
Digits(n) ==
    IF n < 10 THEN Digit(n) ELSE Digits(n \div 10) \o Digit(n % 10)

\* f"{n}" of an int
FormatInt(n) ==
    IF n < 0 THEN "-" \o Digits(0 - n) ELSE Digits(n)

\* f"{n:02d}"
FormatInt02(n) ==
    IF n >= 0 /\ n < 10 THEN "0" \o Digit(n) ELSE FormatInt(n)

\* A Python value that is an int or a str
IntVal(n) == [tag |-> "int", int |-> n, str |-> ""]
StrVal(s) == [tag |-> "str", int |-> 0, str |-> s]

\* f"{v}": an int is rendered in decimal, a str is itself
FormatValue(v) ==
    IF v.tag = "int" THEN FormatInt(v.int) ELSE v.str

\* os.path.join of two relative-free components
PathJoin(a, b) == a \o "/" \o b

output_directory == PathJoin(options_output_directory, variable)

\* target of the cell whose formatted year and month are y and m
Target(y, m) == PathJoin(output_directory, y \o "_" \o m \o ".nc")

\* the key compared by the current-month guard
CellKey(y, m) == y \o "_" \o m

\* faulty variant: the clock's month is not zero-padded
NowKeyUnpadded(now) == FormatInt(now.year) \o "_" \o FormatInt(now.month)

\* line 81: f"{now.year}_{now.month:02d}"
NowKey(now) == FormatInt(now.year) \o "_" \o FormatInt02(now.month)

IsCurrentMonth(y, m, now) == CellKey(y, m) = NowKey(now)

\* faulty variant: tests for a directory, which no target is
IsFileIsDir(fs, path) == FALSE

\* faulty variant: tests the bare file name, not the joined target
IsFileBareName(fs, path) == \E p \in fs : PathJoin(output_directory, p) = path

\* line 85: os.path.isfile(target)
IsFile(fs, path) == path \in fs

\* lines 95-107
RequestDays ==
    << "01", "02", "03", "04", "05", "06", "07", "08", "09", "10", "11",
       "12", "13", "14", "15", "16", "17", "18", "19", "20", "21", "22",
       "23", "24", "25", "26", "27", "28", "29", "30", "31" >>

\* lines 108-117
RequestTimes ==
    << "00:00", "01:00", "02:00", "03:00", "04:00", "05:00", "06:00", "07:00",
       "08:00", "09:00", "10:00", "11:00", "12:00", "13:00", "14:00", "15:00",
       "16:00", "17:00", "18:00", "19:00", "20:00", "21:00", "22:00", "23:00" >>

\* faulty variant: year and month change places
RequestSwapped(y, m) ==
    [ variable |-> << variable >>,
      year |-> m,
      month |-> y,
      day |-> RequestDays,
      time |-> RequestTimes,
      data_format |-> "netcdf",
      download_format |-> "unarchived" ]

\* lines 91-120
Request(y, m) ==
    [ variable |-> << variable >>,
      year |-> y,
      month |-> m,
      day |-> RequestDays,
      time |-> RequestTimes,
      data_format |-> "netcdf",
      download_format |-> "unarchived" ]

RetrieveCall(y, m, target) ==
    [ dataset |-> dataset, request |-> Request(y, m), target |-> target ]

\* faulty variant: the stop value is yielded too
RangeSeqInclusive(a, b) == [ i \in 1 .. (b - a + 1) |-> a + i - 1 ]

\* faulty variant: the values are yielded in descending order
RangeSeqReversed(a, b) == [ i \in 1 .. (b - a) |-> b - i ]

\* range(a, b): the values it yields, in order
RangeSeq(a, b) == [ i \in 1 .. (b - a) |-> a + i - 1 ]

YearRange == RangeSeq(start_year, end_year)
MonthRange == RangeSeq(MonthStart, MonthStop)

\* faulty variant: an empty range is accepted
ArgsValidOrEqual(s, e) == s <= e

\* line 59: the precondition on the year range
ArgsValid(s, e) == s < e

\* faulty variant: `continue` in place of `break`
AfterContinue == "for_month"

\* line 83: `break` leaves the month loop, the year loop goes on
AfterBreak == "for_year"

SkipCurrentLine(target) ==
    "--> skipping: " \o target \o ": current month not yet complete"
SkipExistsLine(target) ==
    "--> skipping: " \o target \o ": already exists"
DownloadingLine(target) ==
    "--> downloading " \o target \o " ..."

UsageMessage == "start year must be less than end year"

-----------------------------------------------------------------------------
(* Inputs *)

\* where the clock starts: any month of the modelled years
ClockStarts ==
    { [year |-> y, month |-> m] : y \in FirstYear .. (FirstYear + MaxSpan),
                                  m \in 1 .. 12 }

PreExisting ==
    SUBSET { Target(FormatInt(FirstYear), FormatInt02(6)),
             Target(FormatInt(FirstYear + 1), FormatInt02(1)) }

NoPrev == [ outcome |-> "none", files0 |-> {}, clock0 |-> [year |-> 0, month |-> 0],
            ok |-> {}, failed |-> {} ]

Init ==
    /\ start_year \in {FirstYear, FirstYear + 1}
    /\ end_year \in FirstYear .. (FirstYear + MaxSpan)
    /\ files \in PreExisting
    /\ dir_exists = (files # {})
    /\ clock \in ClockStarts
    /\ ticks = 0
    /\ pc = "check_args"
    /\ year_it = 0
    /\ month_it = 0
    /\ year = StrVal("")
    /\ month = ""
    /\ made_dir = FALSE
    /\ client = FALSE
    /\ stdout = << >>
    /\ stderr = ""
    /\ exit_code = << >>
    /\ calls = << >>
    /\ inflight = {}
    /\ nfail = 0
    /\ run = "first"
    /\ files0 = files
    /\ clock0 = clock
    /\ prev = NoPrev

\* the inputs under which the re-run is explored: ranges of at most
\* RerunSpan years, the clock starting in the first, a middle or the last
\* month of the first two years
InitRerun ==
    /\ Init
    /\ end_year - start_year <= RerunSpan
    /\ clock.year <= FirstYear + 1
    /\ clock.month \in {1, 6, 12}

-----------------------------------------------------------------------------
(* The script *)

\* lines 59-60
CheckArgs ==
    /\ pc = "check_args"
    /\ IF ~ArgsValid(start_year, end_year)
       THEN /\ pc' = "exit_usage"
            /\ stderr' = UsageMessage
            /\ exit_code' = << 1 >>
       ELSE /\ pc' = "makedirs"
            /\ UNCHANGED << stderr, exit_code >>
    /\ UNCHANGED << start_year, end_year, year_it, month_it, year, month,
                    dir_exists, files, made_dir, client, clock, ticks, stdout,
                    calls, inflight, nfail, run, files0, clock0, prev >>

\* line 66: os.makedirs(output_directory, exist_ok=True)
MakeDirs ==
    /\ pc = "makedirs"
    /\ dir_exists' = TRUE
    /\ made_dir' = TRUE
    /\ pc' = "client"
    /\ UNCHANGED << start_year, end_year, year_it, month_it, year, month,
                    files, client, clock, ticks, stdout, stderr, exit_code,
                    calls, inflight, nfail, run, files0, clock0, prev >>

\* line 68: client = cdsapi.Client(); line 70 creates the year iterator
NewClient ==
    /\ pc = "client"
    /\ client' = TRUE
    /\ year_it' = 0
    /\ pc' = "for_year"
    /\ UNCHANGED << start_year, end_year, month_it, year, month,
                    dir_exists, files, made_dir, clock, ticks, stdout, stderr,
                    exit_code, calls, inflight, nfail, run, files0, clock0, prev >>

\* line 70: for year in range(start_year, end_year)
ForYear ==
    /\ pc = "for_year"
    /\ IF year_it < Len(YearRange)
       THEN /\ year' = IntVal(YearRange[year_it + 1])
            /\ year_it' = year_it + 1
            /\ month_it' = 0
            /\ pc' = "for_month"
            /\ UNCHANGED exit_code
       ELSE /\ pc' = "done"
            /\ exit_code' = << 0 >>
            /\ UNCHANGED << year, year_it, month_it >>
    /\ UNCHANGED << start_year, end_year, month, dir_exists, files, made_dir,
                    client, clock, ticks, stdout, stderr, calls, inflight,
                    nfail, run, files0, clock0, prev >>

\* lines 71-122: one iteration of the month loop, up to the retrieve call
ForMonth ==
    /\ pc = "for_month"
    /\ IF month_it < Len(MonthRange)
       THEN LET y == FormatValue(year)
                m == FormatInt02(MonthRange[month_it + 1])
                target == Target(y, m)
                now == clock
            IN  /\ year' = StrVal(y)
                /\ month' = m
                /\ month_it' = month_it + 1
                /\ IF IsCurrentMonth(y, m, now)
                   THEN /\ stdout' = Append(stdout, SkipCurrentLine(target))
                        /\ pc' = AfterBreak
                        /\ UNCHANGED << calls, inflight >>
                   ELSE IF IsFile(files, target)
                   THEN /\ stdout' = Append(stdout, SkipExistsLine(target))
                        /\ pc' = "for_month"
                        /\ UNCHANGED << calls, inflight >>
                   ELSE /\ stdout' = Append(stdout, DownloadingLine(target))
                        /\ calls' = Append(calls, RetrieveCall(y, m, target))
                        /\ inflight' = inflight \cup {RetrieveCall(y, m, target)}
                        /\ pc' = "retrieve"
       ELSE /\ pc' = "for_year"
            /\ UNCHANGED << year, month, month_it, stdout, calls, inflight >>
    /\ UNCHANGED << start_year, end_year, year_it, dir_exists, files, made_dir,
                    client, clock, ticks, stderr, exit_code, nfail, run,
                    files0, clock0, prev >>

\* line 122: client.retrieve returns after writing the target file
RetrieveOk ==
    /\ pc = "retrieve"
    /\ \E c \in inflight :
          /\ files' = files \cup {c.target}
          /\ inflight' = inflight \ {c}
    /\ pc' = "for_month"
    /\ UNCHANGED << start_year, end_year, year_it, month_it, year, month,
                    dir_exists, made_dir, client, clock, ticks, stdout, stderr,
                    exit_code, calls, nfail, run, files0, clock0, prev >>

\* faulty variant: the error is caught and the loop goes on
RetrieveFailCaught ==
    /\ pc = "retrieve"
    /\ \E c \in inflight : inflight' = inflight \ {c}
    /\ nfail' = nfail + 1
    /\ pc' = "for_month"
    /\ UNCHANGED << start_year, end_year, year_it, month_it, year, month,
                    dir_exists, files, made_dir, client, clock, ticks, stdout,
                    stderr, exit_code, calls, run, files0, clock0, prev >>

\* line 122: client.retrieve raises; nothing catches it, the process ends
RetrieveFail ==
    /\ pc = "retrieve"
    /\ \E c \in inflight : inflight' = inflight \ {c}
    /\ nfail' = nfail + 1
    /\ pc' = "error"
    /\ exit_code' = << 1 >>
    /\ UNCHANGED << start_year, end_year, year_it, month_it, year, month,
                    dir_exists, files, made_dir, client, clock, ticks, stdout,
                    stderr, calls, run, files0, clock0, prev >>

-----------------------------------------------------------------------------
(* Environment *)

NextMonthOf(t) ==
    IF t.month = 12 THEN [year |-> t.year + 1, month |-> 1]
                    ELSE [year |-> t.year, month |-> t.month + 1]

\* the local clock passes into the next calendar month
Tick ==
    /\ ticks < MaxTicks
    /\ clock' = NextMonthOf(clock)
    /\ ticks' = ticks + 1
    /\ UNCHANGED << start_year, end_year, pc, year_it, month_it, year, month,
                    dir_exists, files, made_dir, client, stdout, stderr,
                    exit_code, calls, inflight, nfail, run, files0, clock0, prev >>

Terminated == pc \in {"exit_usage", "done", "error"}

\* the operator runs the script again with identical arguments
Rerun ==
    /\ Terminated
    /\ run = "first"
    /\ run' = "rerun"
    /\ prev' = [ outcome |-> pc, files0 |-> files0, clock0 |-> clock0,
                 ok |-> files \ files0,
                 failed |-> IF pc = "error"
                            THEN {calls[Len(calls)].target} ELSE {} ]
    /\ files0' = files
    /\ clock0' = clock
    /\ pc' = "check_args"
    /\ year_it' = 0
    /\ month_it' = 0
    /\ year' = StrVal("")
    /\ month' = ""
    /\ made_dir' = FALSE
    /\ client' = FALSE
    /\ stdout' = << >>
    /\ stderr' = ""
    /\ exit_code' = << >>
    /\ calls' = << >>
    /\ inflight' = {}
    /\ nfail' = 0
    /\ UNCHANGED << start_year, end_year, dir_exists, files, clock, ticks >>

\* one run of the script
Next ==
    \/ CheckArgs
    \/ MakeDirs
    \/ NewClient
    \/ ForYear
    \/ ForMonth
    \/ RetrieveOk
    \/ RetrieveFail
    \/ Tick

Spec == Init /\ [][Next]_vars

\* one run of the script and a re-run with the same arguments
NextRerun ==
    \/ CheckArgs
    \/ MakeDirs
    \/ NewClient
    \/ ForYear
    \/ ForMonth
    \/ RetrieveOk
    \/ RetrieveFail
    \/ Tick
    \/ Rerun

SpecRerun == InitRerun /\ [][NextRerun]_vars

-----------------------------------------------------------------------------
(* Vocabulary of the properties *)

\* the two-digit month names, written out
MonthNames == << "01", "02", "03", "04", "05", "06",
                 "07", "08", "09", "10", "11", "12" >>

\* calendar cells <<year, month>> around the modelled years
Cells == { << y, m >> : y \in (FirstYear - 1) .. (FirstYear + MaxSpan + 2),
                        m \in 1 .. Len(MonthNames) }

\* <output_directory>/<variable>/<year>_<two-digit month>.nc
CellTarget(c) ==
    options_output_directory \o "/" \o variable \o "/"
        \o FormatInt(c[1]) \o "_" \o MonthNames[c[2]] \o ".nc"

CellTargets == { CellTarget(c) : c \in Cells }

TargetCell == [ t \in CellTargets |-> CHOOSE c \in Cells : CellTarget(c) = t ]

\* the cell a progress line is about
LineCell ==
    [ l \in UNION { { SkipCurrentLine(t), SkipExistsLine(t), DownloadingLine(t) } :
                      t \in CellTargets } |->
        CHOOSE c \in Cells :
            l \in { SkipCurrentLine(CellTarget(c)), SkipExistsLine(CellTarget(c)),
                    DownloadingLine(CellTarget(c)) } ]

\* the cell a "current month not yet complete" line is about
SkipCurrentCell ==
    [ l \in { SkipCurrentLine(t) : t \in CellTargets } |->
        CHOOSE c \in Cells : SkipCurrentLine(CellTarget(c)) = l ]

\* the cells whose months this run skipped as current
SkippedAsCurrent ==
    { SkipCurrentCell[stdout[i]] :
        i \in { j \in 1 .. Len(stdout) : stdout[j] \in DOMAIN SkipCurrentCell } }

\* c is chronologically strictly earlier than d
Before(c, d) == c[1] < d[1] \/ (c[1] = d[1] /\ c[2] < d[2])

ClockCell(t) == << t.year, t.month >>

\* the cells of [start, end) x {1..12}
RangeCells == { c \in Cells : start_year <= c[1] /\ c[1] < end_year }

\* targets for which retrieve was invoked in this run
Called == { calls[i].target : i \in 1 .. Len(calls) }

\* the cell the month loop is about to examine
ExaminedCell == << start_year + year_it - 1, month_it + 1 >>

\* this step is one iteration of the month loop body (every outcome prints)
ExaminesCell ==
    /\ pc = "for_month"
    /\ run' = run
    /\ stdout' # stdout

\* what an error-free run under an unchanging clock `now` retrieves when
\* the files fs exist: the cells of the range that are not on disk and
\* not at or after the current month within the current year
Eligible(fs, now) ==
    { CellTarget(c) :
        c \in { d \in RangeCells :
                  ~(d[1] = now.year /\ d[2] >= now.month) } } \ fs

-----------------------------------------------------------------------------
(* Properties *)

\* C1: when start >= end the run halts with the diagnostic 'start year
\* must be less than end year' and a non-zero exit status, before the
\* output subdirectory is created, before the client is constructed and
\* without any retrieve call or printed progress line.
C1_InvalidRangeHaltsFirst ==
    (start_year >= end_year) =>
        /\ pc \in {"check_args", "exit_usage"}
        /\ ~made_dir
        /\ ~client
        /\ calls = << >>
        /\ inflight = {}
        /\ stdout = << >>
        /\ files = files0
        /\ pc = "exit_usage" =>
              /\ stderr = UsageMessage
              /\ Len(exit_code) = 1
              /\ exit_code[1] # 0

C1_Witness ==
    /\ pc = "exit_usage"
    /\ start_year = end_year
    /\ ~dir_exists

C3_CurrentMonthEndsYear ==
    /\ [][ (ExaminesCell /\ ExaminedCell = ClockCell(clock))
           => ( /\ calls' = calls
                /\ inflight' = inflight
                /\ files' = files
                /\ pc' = "for_year"
                /\ stdout' = Append(stdout,
                                    SkipCurrentLine(CellTarget(ExaminedCell))) )
       ]_vars
    /\ [](\A c \in SkippedAsCurrent :
            \A m \in c[2] .. Len(MonthNames) :
                CellTarget(<< c[1], m >>) \notin Called)

C3_Witness ==
    /\ pc = "done"
    /\ \E c \in SkippedAsCurrent :
          /\ c[2] < Len(MonthNames)
          /\ CellTarget(c) \in files
          /\ CellTarget(<< c[1], c[2] + 1 >>) \notin files

C5_ExactRetrievalSet ==
    ( /\ pc = "done"
      /\ (clock0.year >= end_year \/ clock.year < start_year) ) =>
        /\ Called = { CellTarget(c) : c \in RangeCells } \ files0
        /\ Len(calls) =
              12 * (end_year - start_year)
                 - Cardinality({ c \in RangeCells : CellTarget(c) \in files0 })
        /\ \A i \in 1 .. Len(calls) :
              calls[i].request.year # FormatInt(end_year)

C5_Witness ==
    /\ pc = "done"
    /\ run = "first"
    /\ clock0.year >= end_year
    /\ end_year - start_year = 1
    /\ Len(calls) = 11

\* C6: an error raised by retrieve ends the run: the process exits with
\* a non-zero status, the failed cell was invoked once and is the last
\* thing the run did, nothing is in flight, and the disk holds exactly
\* the files of before the run plus the targets of the run's earlier,
\* successful retrievals.
C6_RetrieveErrorEndsRun ==
    (nfail > 0) =>
        /\ nfail = 1
        /\ pc = "error"
        /\ Len(exit_code) = 1
        /\ exit_code[1] # 0
        /\ inflight = {}
        /\ calls # << >>
        /\ Len(calls) = Cardinality(Called)
        /\ stdout # << >>
        /\ stdout[Len(stdout)] = DownloadingLine(calls[Len(calls)].target)
        /\ calls[Len(calls)].target \notin files
        /\ files = files0 \cup { calls[i].target : i \in 1 .. (Len(calls) - 1) }

C6_Witness ==
    /\ pc = "error"
    /\ run = "first"
    /\ Len(calls) > 2
    /\ files0 # {}
    /\ year_it < end_year - start_year

\* C7: after a run aborted by a retrieve error (the failed retrieval
\* leaving no file), a re-run with the same arguments never retrieves a
\* cell the aborted run retrieved successfully; if the clock still reads
\* the month it read all through the aborted run, the first cell the
\* re-run retrieves is the failed one, and once the re-run completes it
\* has retrieved the failed cell and every other eligible cell not yet
\* retrieved, and the files on disk are those one uninterrupted run
\* produces (a completed run under an unchanging clock leaves the files of
\* before plus the eligible cells).
C7_Resumable ==
    /\ (run = "rerun" /\ prev.outcome = "error") =>
          /\ Called \cap prev.ok = {}
          /\ (calls # << >> /\ clock = prev.clock0) =>
                calls[1].target \in prev.failed
          /\ (Terminated /\ clock = prev.clock0) =>
                prev.failed \subseteq Called
          /\ (pc = "done" /\ clock = prev.clock0) =>
                /\ Called = Eligible(prev.files0, prev.clock0) \ prev.ok
                /\ files = prev.files0 \cup Eligible(prev.files0, prev.clock0)
    /\ (pc = "done" /\ clock = clock0) =>
          files = files0 \cup Eligible(files0, clock0)

C7_Witness ==
    /\ run = "rerun"
    /\ prev.outcome = "error"
    /\ pc = "done"
    /\ clock = prev.clock0
    /\ prev.ok # {}
    /\ prev.files0 # {}
    /\ SkippedAsCurrent # {}
    /\ Cardinality(Called) > 1

\* C8: whenever retrieve is invoked for a cell, that cell is strictly
\* earlier than the month the clock reads.
C8_RetrievedMonthsHaveElapsed ==
    \A c \in inflight : Before(TargetCell[c.target], ClockCell(clock))

\* C9: within a run the cells are examined, and retrieve is invoked, in
\* strictly ascending chronological order, and at most one retrieve call
\* is in flight: the script waits at the call until it returns or raises.
C9_AscendingOneAtATime ==
    /\ \A i \in 1 .. (Len(stdout) - 1) :
          Before(LineCell[stdout[i]], LineCell[stdout[i + 1]])
    /\ \A i \in 1 .. (Len(calls) - 1) :
          Before(TargetCell[calls[i].target], TargetCell[calls[i + 1].target])
    /\ Cardinality(inflight) <= 1
    /\ inflight # {} =>
          /\ pc = "retrieve"
          /\ inflight = { calls[Len(calls)] }
    /\ pc = "retrieve" => inflight # {}

C9_Witness ==
    /\ pc = "retrieve"
    /\ Len(calls) > 12
    /\ Len(stdout) > Len(calls)
    /\ Cardinality(inflight) = 1

\* C10: within a run retrieve is invoked at most once for any cell, and
\* every invocation passes the dataset, the target path of a cell of the
\* range and a request naming the variable and the year and two-digit
\* month of that same cell.
C10_OncePerCellSameCell ==
    /\ Len(calls) = Cardinality(Called)
    /\ \A i \in 1 .. Len(calls) :
          /\ calls[i].target \in CellTargets
          /\ LET c == TargetCell[calls[i].target]
             IN  /\ start_year <= c[1]
                 /\ c[1] < end_year
                 /\ calls[i].dataset = "reanalysis-era5-land"
                 /\ calls[i].request.variable = << "total_precipitation" >>
                 /\ calls[i].request.year = FormatInt(c[1])
                 /\ calls[i].request.month = MonthNames[c[2]]

C10_Witness ==
    /\ pc = "done"
    /\ Len(calls) = 2 * Len(MonthNames)

====
